---- MODULE Spec2Model ----
(***************************************************************************)
(* Diabetes Management App (src/app.py): the Tk application as a state     *)
(* machine.  State is the application object's StringVars, the form that   *)
(* is shown, the open feedback windows and the modal message box; one      *)
(* action per callback.  Strings are sequences of one-character strings,   *)
(* Python floats are IEEE-754 binary64 values computed with exact integer  *)
(* arithmetic, scores are counted in hundredths of a point.                *)
(***************************************************************************)
EXTENDS Integers, Sequences, FiniteSets, TLC

VARIABLES
    process,               \* "start" | "model_loaded" | "loaded" | "running" | "failed"
    xgb_model,             \* module global: the loaded regressor
    scaler,                \* module global: the loaded scaler
    screen,                \* which form root shows: "none" | "profile" | "daily"
    user_id, user_name, age, weight, height,          \* StringVars, user information
    blood_glucose, diet, physical_activity,           \* StringVars, daily data
    medication_adherence, stress_level, sleep_hours, hydration_level,
    bmi,                   \* StringVar set by calculate_bmi
    windows,               \* the open feedback Toplevels, oldest first
    messagebox,            \* the modal dialog being shown, or NoDialog
    debug_log,             \* the last "Debug Information" block printed, or NoPrint
    fhir_payload,          \* the last FHIR payload printed, or NoPrint
    current_color_index,   \* index of the colour animate_colors gives the buttons next
    callback,              \* where the submit_daily_data call being run stands, or "idle"
    reads,                 \* the values of the daily fields as that call has read them
    csv,                   \* training script: the header of diabetes_data.csv
    training,              \* training script: the step main() has reached
    data,                  \* training script: columns of the DataFrame read
    X,                     \* training script: columns of the feature frame
    feature_names          \* training script: columns the scaler and the model are fit on

vars == <<process, xgb_model, scaler, screen, user_id, user_name, age, weight, height,
          blood_glucose, diet, physical_activity, medication_adherence, stress_level,
          sleep_hours, hydration_level, bmi, windows, messagebox, debug_log, fhir_payload,
          current_color_index, callback, reads, csv, training, data, X, feature_names>>

\* the daily fields
daily_vars == <<blood_glucose, diet, physical_activity, medication_adherence, stress_level,
                sleep_hours, hydration_level>>

\* the variables of the application
app_vars == <<process, xgb_model, scaler, screen, user_id, user_name, age, weight, height,
              daily_vars, bmi, windows, messagebox, debug_log, fhir_payload,
              current_color_index, callback, reads>>

\* the position of the running call of submit_daily_data and what it has read
step_vars == <<callback, reads>>

\* the variables of the training script
train_vars == <<csv, training, data, X, feature_names>>

\* ---- arbitrary-precision naturals: little-endian limbs, base 2^15, no high zero limb
LimbBase == 32768
LimbBits == 15

Pow2(n) == <<1, 2, 4, 8, 16, 32, 64, 128, 256, 512, 1024, 2048, 4096, 8192, 16384,
             32768>>[n + 1]

\* the element of a one-element set: a value computed once and used under a name
Only(S) == CHOOSE only \in S : TRUE

SetMax(S) == CHOOSE m \in S : \A j \in S : j <= m

Limb(x, i) == IF i <= Len(x) THEN x[i] ELSE 0

Norm(x) ==
    LET hi == {i \in 1..Len(x) : x[i] # 0}
    IN  IF hi = {} THEN <<>> ELSE SubSeq(x, 1, SetMax(hi))

SmallBitLen(n) == Cardinality({k \in 0..LimbBits : Pow2(k) <= n})

BitLen(x) == IF Len(x) = 0 THEN 0 ELSE LimbBits * (Len(x) - 1) + SmallBitLen(x[Len(x)])

Bit(x, i) == (Limb(x, (i \div LimbBits) + 1) \div Pow2(i % LimbBits)) % 2

Cmp(x, y) ==
    IF Len(x) < Len(y) THEN -1
    ELSE IF Len(x) > Len(y) THEN 1
    ELSE LET diff == {i \in 1..Len(x) : x[i] # y[i]}
         IN  IF diff = {} THEN 0
             ELSE IF x[SetMax(diff)] < y[SetMax(diff)] THEN -1 ELSE 1

\* the carry into limb i of x + y, by carry look-ahead: some lower limb generates a
\* carry and every limb in between propagates it
AddV(x, y) ==
    LET n == IF Len(x) > Len(y) THEN Len(x) ELSE Len(y)
        sm == [i \in 1..n |-> Limb(x, i) + Limb(y, i)]
        c  == [i \in 1..(n + 1) |->
                 IF \E j \in 1..(i - 1) :
                        sm[j] >= LimbBase /\ \A k \in (j + 1)..(i - 1) : sm[k] = LimbBase - 1
                 THEN 1 ELSE 0]
    IN  Norm([i \in 1..(n + 1) |-> IF i = n + 1 THEN c[i] ELSE (sm[i] + c[i]) % LimbBase])

Add(x0, y0) == Only({AddV(fa[1], fa[2]) : fa \in {<<x0, y0>>}})

\* x - y for x >= y, the borrows by look-ahead
SubV(x, y) ==
    LET n == Len(x)
        b == [i \in 1..n |->
                IF \E j \in 1..(i - 1) :
                       x[j] < Limb(y, j) /\ \A k \in (j + 1)..(i - 1) : x[k] = Limb(y, k)
                THEN 1 ELSE 0]
    IN  Norm([i \in 1..n |-> (x[i] - Limb(y, i) - b[i] + LimbBase) % LimbBase])

Sub(x0, y0) == Only({SubV(fa[1], fa[2]) : fa \in {<<x0, y0>>}})

\* x * k for 0 <= k < LimbBase: the low halves of the limb products plus the high halves
\* one limb up
MulSmallV(x, k) ==
    AddV([i \in 1..Len(x) |-> (x[i] * k) % LimbBase],
         [i \in 1..(Len(x) + 1) |-> IF i = 1 THEN 0 ELSE (x[i - 1] * k) \div LimbBase])

MulSmall(x0, k0) == Only({MulSmallV(fa[1], fa[2]) : fa \in {<<x0, k0>>}})

FromSmall(n) == Norm(<<n % LimbBase, (n \div LimbBase) % LimbBase,
                       n \div (LimbBase * LimbBase)>>)

ToSmall(x) == Limb(x, 1) + LimbBase * Limb(x, 2)

\* x * 2^s: whole limbs of zeros, then every limb takes the high bits of the one below
ShlV(x, s) ==
    LET w == s \div LimbBits
        k == s % LimbBits
    IN  Norm([i \in 1..(Len(x) + w + 1) |->
                IF i <= w THEN 0
                ELSE ((Limb(x, i - w) * Pow2(k)) % LimbBase)
                     + (IF i - w = 1 THEN 0 ELSE (x[i - w - 1] * Pow2(k)) \div LimbBase)])

Shl(x0, s0) == Only({ShlV(fa[1], fa[2]) : fa \in {<<x0, s0>>}})

\* floor(x / 2^s)
ShrV(x, s) ==
    LET w == s \div LimbBits
        k == s % LimbBits
    IN  Norm([i \in 1..(Len(x) - w) |->
                (x[i + w] \div Pow2(k))
                + (Limb(x, i + w + 1) % Pow2(k)) * Pow2(LimbBits - k)])

Shr(x0, s0) == Only({ShrV(fa[1], fa[2]) : fa \in {<<x0, s0>>}})

\* x is a multiple of 2^s
LowBitsZero(x, s) ==
    /\ \A i \in 1..(s \div LimbBits) : Limb(x, i) = 0
    /\ Limb(x, (s \div LimbBits) + 1) % Pow2(s % LimbBits) = 0

MulV(x, y) ==
    LET acc[mj \in 0..Len(y)] ==
            IF mj = 0 THEN <<>>
            ELSE Add(acc[mj - 1], ShlV(MulSmall(x, y[mj]), LimbBits * (mj - 1)))
    IN  Norm(acc[Len(y)])

Mul(x0, y0) == Only({MulV(fa[1], fa[2]) : fa \in {<<x0, y0>>}})

\* One step of schoolbook long division (Knuth's algorithm D) for a divisor dv whose
\* top limb is at least LimbBase / 2: bring down limb nl into the remainder qr[2],
\* estimate the quotient limb from the two top limbs, correct it by at most 2.
DivLimbStepV(dv, nl, qr) ==
    LET dn   == Len(dv)
        rem  == Norm(<<nl>> \o qr[2])
        top  == Limb(rem, dn + 1) * LimbBase + Limb(rem, dn)
        est0 == top \div dv[dn]
        est  == IF est0 > LimbBase - 1 THEN LimbBase - 1 ELSE est0
    IN  Only({<<Norm(<<SetMax({pr[1] : pr \in fits})>> \o qr[1]),
                Sub(rem, (CHOOSE pr \in fits : \A other \in fits : other[1] <= pr[1])[2])>> :
              fits \in {{pr \in {<<t, MulSmall(dv, t)>> :
                                    t \in {u \in {est, est - 1, est - 2} : u >= 0}} :
                            Cmp(pr[2], rem) <= 0}}})

DivLimbStep(dv0, nl0, qr0) ==
    Only({DivLimbStepV(fa[1], fa[2], fa[3]) : fa \in {<<dv0, nl0, qr0>>}})

\* floor(nm / dv) and nm mod dv for dv normalised as above: the top Len(dv) - 1 limbs
\* of nm are the first remainder, one step for each limb below them
DivNormalisedV(nm, dv) ==
    LET nn   == Len(nm)
        skip == IF Len(dv) - 1 < nn THEN Len(dv) - 1 ELSE nn
        blk[di \in 0..(nn - skip)] ==
            IF di = 0 THEN <<<<>>, SubSeq(nm, nn - skip + 1, nn)>>
            ELSE DivLimbStep(dv, nm[nn - skip - di + 1], blk[di - 1])
    IN  blk[nn - skip]

DivNormalised(nm0, dv0) == Only({DivNormalisedV(fa[1], fa[2]) : fa \in {<<nm0, dv0>>}})

\* floor(n / d) for d > 0, and whether the division is exact; n and d are scaled by the
\* same power of two to normalise d
DivMod(n, d) ==
    Only({[q |-> qr[1], exact |-> Len(qr[2]) = 0] :
          qr \in {DivNormalised(Shl(n, LimbBits - SmallBitLen(d[Len(d)])),
                                Shl(d, LimbBits - SmallBitLen(d[Len(d)])))}})

\* ---- IEEE-754 binary64, positive finite values: m * 2^e with 2^52 <= m < 2^53
MantBits == 53
MinExp == -1074
FZero == [neg |-> FALSE, m |-> <<>>, e |-> 0]

\* q * 2^ex, or more when the division that gave q was not exact, as a double: drop the
\* low bits beyond the 53 the mantissa keeps (more of them for a subnormal), round to
\* nearest, ties to even
RoundBitsV(q, exact, ex) ==
    LET nat  == BitLen(q) - MantBits
        drop == IF nat + ex < MinExp THEN MinExp - ex ELSE nat
        rbit == Bit(q, drop - 1)
        stky == ~LowBitsZero(q, drop - 1) \/ ~exact
    IN  Only({IF Len(m1) = 0 THEN FZero
              ELSE IF BitLen(m1) > MantBits
              THEN [neg |-> FALSE, m |-> ShrV(m1, 1), e |-> drop + ex + 1]
              ELSE [neg |-> FALSE, m |-> m1, e |-> drop + ex] :
              m1 \in {Only({IF rbit = 1 /\ (stky \/ Bit(m0, 0) = 1) THEN AddV(m0, <<1>>)
                            ELSE m0 : m0 \in {ShrV(q, drop)}})}})

RoundBits(q0, exact0, ex0) ==
    Only({RoundBitsV(fa[1], fa[2], fa[3]) : fa \in {<<q0, exact0, ex0>>}})

\* the double nearest to (num / den) * 2^e0, ties to even: the quotient is taken with
\* one or two bits more than the mantissa keeps
RoundQV(num, den, e0) ==
    IF Len(num) = 0 THEN FZero
    ELSE LET s == (MantBits + 1) + BitLen(den) - BitLen(num)
         IN  Only({RoundBits(qr.q, qr.exact, e0 - s) :
                   qr \in {DivMod(ShlV(num, IF s >= 0 THEN s ELSE 0),
                                  ShlV(den, IF s >= 0 THEN 0 ELSE 0 - s))}})

RoundQ(num0, den0, e00) ==
    Only({RoundQV(fa[1], fa[2], fa[3]) : fa \in {<<num0, den0, e00>>}})

FNeg(a) == [a EXCEPT !.neg = ~a.neg]

FIsZero(a) == Len(a.m) = 0

\* a * b and a / b (b # 0) of two doubles, and the double of the integer ratio n / d
FMul(a, b) == [RoundQ(Mul(a.m, b.m), <<1>>, a.e + b.e) EXCEPT !.neg = (a.neg # b.neg)]
FDiv(a, b) == [RoundQ(a.m, b.m, a.e - b.e) EXCEPT !.neg = (a.neg # b.neg)]
FromQ(n, d) == RoundQ(FromSmall(n), FromSmall(d), 0)

\* -1, 0, 1 as a < b, a = b, a > b
FCmpMag(a, b) ==
    IF FIsZero(a) /\ FIsZero(b) THEN 0
    ELSE IF FIsZero(a) THEN -1
    ELSE IF FIsZero(b) THEN 1
    ELSE IF BitLen(a.m) + a.e < BitLen(b.m) + b.e THEN -1
    ELSE IF BitLen(a.m) + a.e > BitLen(b.m) + b.e THEN 1
    ELSE Cmp(a.m, b.m)

FCmpV(a, b) ==
    IF FIsZero(a) /\ FIsZero(b) THEN 0
    ELSE IF a.neg /\ ~b.neg THEN -1
    ELSE IF ~a.neg /\ b.neg THEN 1
    ELSE IF a.neg THEN 0 - FCmpMag(a, b)
    ELSE FCmpMag(a, b)

FCmp(a0, b0) == Only({FCmpV(fa[1], fa[2]) : fa \in {<<a0, b0>>}})

FLt(a, b) == FCmp(a, b) < 0
FLe(a, b) == FCmp(a, b) <= 0
FGt(a, b) == FCmp(a, b) > 0

\* f"{a:.1f}" needs round(a * 10) to the nearest integer, ties to even, of the exact
\* binary value (a >= 0, below 2^30 tenths)
RoundTenthsV(n10, ex) ==
    IF ex >= 0 THEN ToSmall(ShlV(n10, ex))
    ELSE LET q    == ToSmall(ShrV(n10, 0 - ex))
             half == Bit(n10, 0 - ex - 1)
             low  == ~LowBitsZero(n10, 0 - ex - 1)
         IN  IF half = 1 /\ (low \/ q % 2 = 1) THEN q + 1 ELSE q

RoundTenths(a) ==
    IF FIsZero(a) THEN 0
    ELSE Only({RoundTenthsV(fa[1], fa[2]) : fa \in {<<MulSmall(a.m, 10), a.e>>}})

\* ---- Python str and number conversions, on sequences of characters
AsciiDigits == <<"0", "1", "2", "3", "4", "5", "6", "7", "8", "9">>
UpperCase == <<"A", "B", "C", "D", "E", "F", "G", "H", "I", "J", "K", "L", "M",
               "N", "O", "P", "Q", "R", "S", "T", "U", "V", "W", "X", "Y", "Z">>
LowerCase == <<"a", "b", "c", "d", "e", "f", "g", "h", "i", "j", "k", "l", "m",
               "n", "o", "p", "q", "r", "s", "t", "u", "v", "w", "x", "y", "z">>
Pow5 == <<1, 5, 25, 125, 625, 3125, 15625>>
Pow10 == <<1, 10, 100, 1000, 10000, 100000, 1000000, 10000000, 100000000, 1000000000>>

IsAsciiDigit(ch) == \E di \in 1..10 : AsciiDigits[di] = ch

\* characters c with c.isdigit(): the decimal digits and the superscript digits
IsDigitChar(ch) == IsAsciiDigit(ch) \/ ch = "²"

DigitValue(ch) == (CHOOSE di \in 1..10 : AsciiDigits[di] = ch) - 1

\* str.isdigit(): non-empty and every character is a digit
IsDigit(str) == Len(str) > 0 /\ \A si \in 1..Len(str) : IsDigitChar(str[si])

\* str.replace('.', '', 1): the first '.' removed
ReplaceFirstDot(str) ==
    LET dots == {si \in 1..Len(str) : str[si] = "."}
    IN  IF dots = {} THEN str
        ELSE LET first == CHOOSE si \in dots : \A sj \in dots : si <= sj
             IN  SubSeq(str, 1, first - 1) \o SubSeq(str, first + 1, Len(str))

LowerChar(ch) ==
    IF \E li \in 1..26 : UpperCase[li] = ch
    THEN LowerCase[CHOOSE li \in 1..26 : UpperCase[li] = ch]
    ELSE ch

\* str.lower()
Lower(str) == [si \in 1..Len(str) |-> LowerChar(str[si])]

\* value of a short string of ASCII digits
DigitsValue(str) ==
    LET dv[si \in 0..Len(str)] ==
            IF si = 0 THEN 0 ELSE dv[si - 1] * 10 + DigitValue(str[si])
    IN  dv[Len(str)]

\* the digits from the first non-zero one on
StripZeros(str) ==
    LET nz == {si \in 1..Len(str) : str[si] # "0"}
    IN  IF nz = {} THEN <<>>
        ELSE SubSeq(str, CHOOSE si \in nz : \A sj \in nz : si <= sj, Len(str))

\* value of a string of ASCII digits of any length, as limbs
BigDigits(str) ==
    LET sig == StripZeros(str)
        bd[si \in 0..Len(sig)] ==
            IF si = 0 THEN <<>>
            ELSE Add(MulSmall(bd[si - 1], 10), FromSmall(DigitValue(sig[si])))
    IN  bd[Len(sig)]

\* 5^n as limbs
BigPow5(n) ==
    LET p[pi \in 0..(n \div 6)] ==
            IF pi = 0 THEN <<Pow5[(n % 6) + 1]>> ELSE MulSmall(p[pi - 1], Pow5[7])
    IN  p[n \div 6]

AllAsciiDigits(str) == \A si \in 1..Len(str) : IsAsciiDigit(str[si])

HasSign(str) == Len(str) > 0 /\ str[1] \in {"-", "+"}
Unsigned(str) == IF HasSign(str) THEN Tail(str) ELSE str

\* a conversion either gives a value or raises ValueError
NotANumber == [ok |-> FALSE]

\* int(str): an optional sign and decimal digits, else ValueError
PyInt(str) ==
    LET body == Unsigned(str)
    IN  IF Len(body) > 0 /\ AllAsciiDigits(body)
        THEN [ok |-> TRUE,
              val |-> IF HasSign(str) /\ str[1] = "-" THEN 0 - DigitsValue(body)
                      ELSE DigitsValue(body)]
        ELSE NotANumber

\* float(str): an optional sign, decimal digits with at most one '.', at least one
\* digit, else ValueError; the value is the double nearest to the decimal number
PyFloat(str) ==
    LET body   == Unsigned(str)
        digits == ReplaceFirstDot(body)
        dots   == {si \in 1..Len(body) : body[si] = "."}
        fracn  == IF dots = {} THEN 0 ELSE Len(body) - (CHOOSE si \in dots : TRUE)
    IN  IF Len(digits) > 0 /\ AllAsciiDigits(digits)
        THEN [ok |-> TRUE,
              val |-> [RoundQ(BigDigits(digits), BigPow5(fracn), 0 - fracn)
                          EXCEPT !.neg = (HasSign(str) /\ str[1] = "-")]]
        ELSE NotANumber

\* str(n) for n >= 0
IntToStr(n) ==
    LET nd == Cardinality({pi \in 2..10 : Pow10[pi] <= n}) + 1
    IN  [si \in 1..nd |-> AsciiDigits[((n \div Pow10[nd - si + 1]) % 10) + 1]]

\* f"{a:.1f}" for a >= 0
FormatF1(a) ==
    LET t10 == RoundTenths(a)
    IN  IntToStr(t10 \div 10) \o <<".">> \o IntToStr(t10 % 10)

\* ---- the words the program compares typed text with, and its status keys
healthy == <<"h", "e", "a", "l", "t", "h", "y">>
unhealthy == <<"u", "n", "h", "e", "a", "l", "t", "h", "y">>
good == <<"g", "o", "o", "d">>
poor == <<"p", "o", "o", "r">>
low == <<"l", "o", "w">>
medium == <<"m", "e", "d", "i", "u", "m">>
high == <<"h", "i", "g", "h">>
yes == <<"y", "e", "s">>
no == <<"n", "o">>
moderate == <<"m", "o", "d", "e", "r", "a", "t", "e">>
normal == <<"n", "o", "r", "m", "a", "l">>
extreme == <<"e", "x", "t", "r", "e", "m", "e">>
optimal == <<"o", "p", "t", "i", "m", "a", "l">>
Underweight == <<"U", "n", "d", "e", "r", "w", "e", "i", "g", "h", "t">>
Normal_weight == <<"N", "o", "r", "m", "a", "l", " ", "w", "e", "i", "g", "h", "t">>
Overweight == <<"O", "v", "e", "r", "w", "e", "i", "g", "h", "t">>
Obese == <<"O", "b", "e", "s", "e">>
Low == <<"L", "o", "w">>
Moderate == <<"M", "o", "d", "e", "r", "a", "t", "e">>
High == <<"H", "i", "g", "h">>

\* ---- exceptions: the type, the message, the text the message quotes and the source
\* line that raised
NoException == [type |-> "None", msg |-> "", arg |-> <<>>, line |-> 0]

Raise(type, msg, arg, line) == [type |-> type, msg |-> msg, arg |-> arg, line |-> line]

\* ---- what the user can type.  Entry* are the texts typed in a run of the application;
\* Sweep* are the texts the forms are filled with when a form is studied on its own.
Zs(n) == [zi \in 1..n |-> "0"]

\* a height so small that its square in metres is below the smallest double
TinyHeight == <<"0", ".">> \o Zs(159) \o <<"1">>

EntryUserId == {<<>>, <<"u", "1">>}
EntryUserName == {<<>>, <<"A", "n", "n">>}
EntryAge == {<<>>, <<"0">>, <<"4", "5">>}
EntryWeight == {<<>>, <<"²">>, <<"6", "4">>}
EntryHeight == {<<>>, <<"1", "6", "0">>}
EntryBloodGlucose == {<<>>, <<"9", "0">>, <<"1", "9", "0">>}
EntryDiet == {<<>>, <<"H", "e", "a", "l", "t", "h", "y">>}
EntryPhysicalActivity == {<<>>, <<"2", "0">>}
EntryMedicationAdherence == {<<>>, <<"p", "o", "o", "r">>}
EntryStressLevel == {<<>>, <<"H", "I", "G", "H">>}
EntrySleepHours == {<<>>, <<"5", ".", "5">>}
EntryHydrationLevel == {<<>>, <<"n", "o">>}

SweepUserId == {<<>>, <<"u", "1">>}
SweepUserName == {<<>>, <<"A", "n", "n">>}
SweepAge == {<<>>, <<"0">>, <<"a", "b", "c">>, <<"²">>, <<"4", ".", "5">>, <<"4", "5">>}
SweepWeight == {<<>>, <<"0">>, <<"a", "b", "c">>, <<"²">>, <<"1", ".", "2", ".", "3">>, <<".">>, <<"6", "4">>, <<"7", "0", ".", "5">>}
SweepHeight == {<<>>, <<"0">>, <<"a", "b", "c">>, <<"-", "1", "7", "0">>, <<"1", "6", "0">>, <<"5", ".">>, TinyHeight}

\* profiles of the study of the BMI: the categories and their boundaries
BmiWeight == {<<"4", "5">>, <<"6", "4">>, <<"7", "0">>, <<"7", "4">>, <<"7", "6", ".", "8">>, <<"8", "0">>, <<"1", "2", "0">>}
BmiHeight == {<<"1", "6", "0">>, <<"1", "7", "0">>, <<"1", "7", "5">>, <<"2", "0", "0">>}

\* observations of the study of the penalties and statuses: the thresholds and their
\* neighbours, the categorical values in several letter cases
ObsBloodGlucose == {<<"6", "9">>, <<"7", "0">>, <<"1", "8", "0">>, <<"1", "8", "1">>, <<"3", "0", "0">>, <<"3", "0", "1">>}
ObsDiet == {<<"h", "e", "a", "l", "t", "h", "y">>, <<"U", "n", "h", "e", "a", "l", "t", "h", "y">>}
ObsPhysicalActivity == {<<"0">>, <<"2", "9">>, <<"3", "0">>, <<"5", "9">>, <<"6", "0">>}
ObsMedicationAdherence == {<<"g", "o", "o", "d">>, <<"P", "o", "o", "r">>}
ObsStressLevel == {<<"l", "o", "w">>, <<"M", "e", "d", "i", "u", "m">>, <<"H", "I", "G", "H">>}
ObsSleepHours == {<<"5", ".", "9">>, <<"6">>, <<"6", ".", "5">>, <<"7">>, <<"9">>, <<"9", ".", "5">>}
ObsHydrationLevel == {<<"y", "e", "s">>, <<"N", "o">>}

\* daily forms of the study of the validation: for each field the ways to violate its
\* rule, and a value that passes
SweepBloodGlucose == {<<>>, <<"-", "5">>, <<"0">>, <<"²">>, <<"1", "2", ".", "5">>, <<"1", "9", "0">>}
SweepDiet == {<<>>, <<"u", "n", "k", "n", "o", "w", "n">>, <<"H", "e", "a", "l", "t", "h", "y">>}
SweepPhysicalActivity == {<<>>, <<"-", "1">>, <<"²">>, <<"1", ".", "5">>, <<"0">>}
SweepMedicationAdherence == {<<>>, <<"b", "a", "d">>, <<"P", "O", "O", "R">>}
SweepStressLevel == {<<>>, <<"n", "o", "n", "e">>, <<"M", "e", "d", "i", "u", "m">>}
SweepSleepHours == {<<>>, <<"-", "1">>, <<"1", ".", "2", ".", "3">>, <<"²">>, <<"0">>, <<"7", ".", "5">>}
SweepHydrationLevel == {<<>>, <<"m", "a", "y", "b", "e">>, <<"N", "O">>}

TypedWeight == EntryWeight \cup SweepWeight \cup BmiWeight
TypedHeight == EntryHeight \cup SweepHeight \cup BmiHeight
TypedNumber ==
    TypedWeight \cup TypedHeight \cup EntryAge \cup SweepAge
    \cup EntryBloodGlucose \cup ObsBloodGlucose \cup SweepBloodGlucose
    \cup EntryPhysicalActivity \cup ObsPhysicalActivity \cup SweepPhysicalActivity
    \cup EntrySleepHours \cup ObsSleepHours \cup SweepSleepHours

\* float(str) for every text that can be typed, computed once
\* a function with its values computed
Tabulated(fn) == CHOOSE table \in {fn} : table = fn

FloatTable == Tabulated([str \in TypedNumber |-> PyFloat(str)])

float(str) == FloatTable[str]

\* the doubles of the integer literals of the program, and of 18.5
IntLiterals == {0, 6, 7, 9, 25, 30, 60, 70, 100, 150, 180, 300}

LiteralTable == Tabulated([n \in IntLiterals |-> FromQ(n, 1)])

Lit(n) == LiteralTable[n]

Lit18_5 == FromQ(37, 2)

\* ---- submit_user_info

\* `if not s.isdigit() or int(s) <= 0: raise ValueError(msg)` with the `if` on the given
\* line: the exception the statement raises, if any.  orEqual tells `<= 0` from `< 0`.
IntRule(str, orEqual, msg, line) ==
    IF ~IsDigit(str) THEN Raise("ValueError", msg, <<>>, line + 1)
    ELSE IF ~PyInt(str).ok
    THEN Raise("ValueError", "invalid literal for int() with base 10", str, line)
    ELSE IF PyInt(str).val < 0 \/ (orEqual /\ PyInt(str).val = 0)
    THEN Raise("ValueError", msg, <<>>, line + 1)
    ELSE NoException

\* `if not s.replace('.', '', 1).isdigit() or float(s) <= 0: raise ValueError(msg)`
FloatRule(str, orEqual, msg, line) ==
    IF ~IsDigit(ReplaceFirstDot(str)) THEN Raise("ValueError", msg, <<>>, line + 1)
    ELSE IF ~float(str).ok
    THEN Raise("ValueError", "could not convert string to float", str, line)
    ELSE IF FLt(float(str).val, Lit(0)) \/ (orEqual /\ FIsZero(float(str).val))
    THEN Raise("ValueError", msg, <<>>, line + 1)
    ELSE NoException

\* a variant of submit_user_info that does not check the height
submit_user_info_without_height ==
    LET age_e    == IntRule(age, TRUE, "Age must be a positive integer.", 223)
        weight_e == FloatRule(weight, TRUE, "Weight must be a positive number.", 225)
    IN  IF Len(user_id) = 0 \/ Len(user_name) = 0
        THEN Raise("ValueError", "User ID and Name are required.", <<>>, 222)
        ELSE IF age_e # NoException THEN age_e
        ELSE IF weight_e # NoException THEN weight_e
        ELSE NoException

\* the exception raised in the try block of submit_user_info, if any
submit_user_info ==
    LET age_e    == IntRule(age, TRUE, "Age must be a positive integer.", 223)
        weight_e == FloatRule(weight, TRUE, "Weight must be a positive number.", 225)
        height_e == FloatRule(height, TRUE, "Height must be a positive number.", 227)
    IN  IF Len(user_id) = 0 \/ Len(user_name) = 0
        THEN Raise("ValueError", "User ID and Name are required.", <<>>, 222)
        ELSE IF age_e # NoException THEN age_e
        ELSE IF weight_e # NoException THEN weight_e
        ELSE IF height_e # NoException THEN height_e
        ELSE NoException

\* ---- calculate_bmi

\* The body of calculate_bmi on the texts of the weight and height StringVars: it
\* returns None when float() raises ValueError, raises ZeroDivisionError when the
\* squared height is 0.0, and otherwise sets the bmi StringVar and returns the BMI.
calculate_bmi_on(weight_s, height_s) ==
    IF ~float(weight_s).ok \/ ~float(height_s).ok
    THEN [kind |-> "None"]
    ELSE LET weight_f == float(weight_s).val
             height_m == FDiv(float(height_s).val, Lit(100))
             square   == FMul(height_m, height_m)
         IN  IF FIsZero(square)
             THEN [kind |-> "raise",
                   e |-> Raise("ZeroDivisionError", "float division by zero", <<>>, 309)]
             ELSE [kind |-> "return",
                   val |-> FDiv(weight_f, square),
                   text |-> FormatF1(FDiv(weight_f, square))]

\* the weight and height texts that can stand in the form together
TypedProfile ==
    (EntryWeight \X EntryHeight) \cup (SweepWeight \X SweepHeight) \cup (BmiWeight \X BmiHeight)

BmiTable == Tabulated([wh \in TypedProfile |-> calculate_bmi_on(wh[1], wh[2])])

calculate_bmi == BmiTable[<<weight, height>>]

\* ---- determine_activity_level
\* a variant of determine_activity_level in which 30 is low and 60 is moderate
determine_activity_level_inclusive(minutes) ==
    LET minutes_f == float(minutes).val
    IN  IF FLe(minutes_f, Lit(30)) THEN low
        ELSE IF FLe(minutes_f, Lit(60)) THEN moderate
        ELSE high

determine_activity_level(minutes) ==
    LET minutes_f == float(minutes).val
    IN  IF FLt(minutes_f, Lit(30)) THEN low
        ELSE IF FLt(minutes_f, Lit(60)) THEN moderate
        ELSE high

\* ---- submit_daily_data

\* the exception raised by the validation of the daily data, if any
validate_daily_data ==
    LET bg_e    == IntRule(blood_glucose, TRUE, "Blood Glucose must be a positive integer.", 333)
        pa_e    == IntRule(physical_activity, FALSE,
                           "Physical activity must be a non-negative integer.", 337)
        sleep_e == FloatRule(sleep_hours, FALSE,
                             "Sleep hours must be a non-negative number.", 343)
    IN  IF bg_e # NoException THEN bg_e
        ELSE IF Lower(diet) \notin {healthy, unhealthy}
        THEN Raise("ValueError", "Diet must be 'healthy' or 'unhealthy'.", <<>>, 336)
        ELSE IF pa_e # NoException THEN pa_e
        ELSE IF Lower(medication_adherence) \notin {good, poor}
        THEN Raise("ValueError", "Medication adherence must be 'good' or 'poor'.", <<>>, 340)
        ELSE IF Lower(stress_level) \notin {low, medium, high}
        THEN Raise("ValueError", "Stress level must be 'low', 'medium', or 'high'.", <<>>, 342)
        ELSE IF sleep_e # NoException THEN sleep_e
        ELSE IF Lower(hydration_level) \notin {yes, no}
        THEN Raise("ValueError", "Hydration level must be 'yes' or 'no'.", <<>>, 346)
        ELSE NoException

stress_level_map == (low :> 0) @@ (medium :> 1) @@ (high :> 2)

\* a variant of the array with the diet and the medication adherence swapped
features_swapped ==
    << float(weight).val,
       float(height).val,
       calculate_bmi.val,
       float(blood_glucose).val,
       float(physical_activity).val,
       IF Lower(medication_adherence) = good THEN 1 ELSE 0,
       IF Lower(diet) = healthy THEN 1 ELSE 0,
       stress_level_map[Lower(stress_level)],
       float(sleep_hours).val,
       IF Lower(hydration_level) = yes THEN 1 ELSE 0 >>

\* the array handed to scaler.transform (numpy stores the integers as doubles)
features ==
    << float(weight).val,
       float(height).val,
       calculate_bmi.val,
       float(blood_glucose).val,
       float(physical_activity).val,
       IF Lower(diet) = healthy THEN 1 ELSE 0,
       IF Lower(medication_adherence) = good THEN 1 ELSE 0,
       stress_level_map[Lower(stress_level)],
       float(sleep_hours).val,
       IF Lower(hydration_level) = yes THEN 1 ELSE 0 >>

bmi_category_of(bmi_v) ==
    IF FLt(bmi_v, Lit18_5) THEN Underweight
    ELSE IF FLt(bmi_v, Lit(25)) THEN Normal_weight
    ELSE IF FLt(bmi_v, Lit(30)) THEN Overweight
    ELSE Obese

\* ---- the predictor.  The pickled artifacts are not part of the repository: the scaler
\* is a standard scaler (a mean and a scale for each column), the regressor a tree with
\* one split.  Scores are integers counting hundredths of a point.
ScoreUnit == 100

Scalers == {[mean  |-> <<70, 170, 24, 150, 30, 0, 0, 1, 7, 0>>,
             scale |-> <<15, 10, 4, 50, 20, 1, 1, 1, 2, 1>>]}

Stump(below, above) == [feature |-> 4, threshold |-> 0, below |-> below, above |-> above]

Models == {Stump(1200, 4800)}

\* base scores: negative, above 100, and those that put the adjusted score of an
\* observation without penalties on and next to the tier boundaries
BaseScores == {-20 * ScoreUnit, 0, 15 * ScoreUnit - 1, 15 * ScoreUnit, 30 * ScoreUnit - 1,
               30 * ScoreUnit, 45 * ScoreUnit - 1, 45 * ScoreUnit, 60 * ScoreUnit - 1,
               60 * ScoreUnit, 120 * ScoreUnit}

ScoreModels == {Stump(base, base + 7 * ScoreUnit) : base \in BaseScores}

NotLoaded == [feature |-> 0]

\* scaler.transform(X): column i becomes (X[i] - mean[i]) / scale[i], kept as the three
\* numbers
transform(sc, array) ==
    [i \in 1..Len(array) |-> [x |-> array[i], mean |-> sc.mean[i], scale |-> sc.scale[i]]]

\* a variant of the prediction that grows with the number of feedback windows already
\* open, that is with the earlier assessments
predict_remembering(model, Z) ==
    LET z == Z[model.feature]
    IN  IF FLt(z.x, Lit(z.mean + model.threshold * z.scale))
        THEN model.below + Len(windows) * ScoreUnit
        ELSE model.above + Len(windows) * ScoreUnit

\* xgb_model.predict(Z)[0]: the split compares (x - mean) / scale with the threshold,
\* that is x with mean + threshold * scale
predict(model, Z) ==
    LET z == Z[model.feature]
    IN  IF FLt(z.x, Lit(z.mean + model.threshold * z.scale)) THEN model.below
        ELSE model.above

\* ---- show_feedback
advice ==
    ("Physical Activity" :>
        ((low :> "Less than 30 minutes of activity.")
         @@ (moderate :> "Good activity level!")
         @@ (high :> "Excellent activity level!")))
    @@ ("BMI" :>
        ((Underweight :> "Consider increasing caloric intake and strength training exercises.")
         @@ (Normal_weight :> "Great job maintaining a healthy weight!")
         @@ (Overweight :> "Consider increasing physical activity and watching portion sizes.")
         @@ (Obese :> "Please consult with a healthcare provider about a weight management plan.")))
    @@ ("Blood Glucose" :>
        ((low :> "Blood glucose is low.")
         @@ (normal :> "Blood glucose is in a healthy range.")
         @@ (high :> "Blood glucose is elevated.")
         @@ (extreme :> "Blood glucose level is critically high.")))
    @@ ("Diet" :>
        ((healthy :> "Excellent dietary choices!")
         @@ (unhealthy :> "Consider incorporating more whole foods and reducing processed foods.")))
    @@ ("Medication" :>
        ((good :> "Great medication adherence!")
         @@ (poor :> "Important to take medications as prescribed.")))
    @@ ("Stress" :>
        ((low :> "Great stress management!")
         @@ (medium :> "Consider stress-reduction techniques like meditation or yoga.")
         @@ (high :> "High stress detected.")))
    @@ ("Sleep" :>
        ((low :> "Less than 7 hours of sleep.")
         @@ (optimal :> "Great sleep duration!")
         @@ (high :> "More than 9 hours of sleep.")))
    @@ ("Hydration" :>
        ((yes :> "Well hydrated!")
         @@ (no :> "Increase your water intake for better blood sugar control.")))

\* a variant of the blood glucose status in which 300 is extreme and 180 is high
bg_status_inclusive(bg_level) ==
    IF FLe(Lit(300), bg_level) THEN extreme
    ELSE IF FLt(bg_level, Lit(70)) THEN low
    ELSE IF FLe(Lit(180), bg_level) THEN high
    ELSE normal

bg_status_of(bg_level) ==
    IF FGt(bg_level, Lit(300)) THEN extreme
    ELSE IF FLt(bg_level, Lit(70)) THEN low
    ELSE IF FGt(bg_level, Lit(180)) THEN high
    ELSE normal

\* a variant of the sleep status in which 7 hours are low and 9 hours are high
sleep_status_inclusive(sleep_h) ==
    IF FLe(sleep_h, Lit(7)) THEN low
    ELSE IF FLe(Lit(9), sleep_h) THEN high
    ELSE optimal

sleep_status_of(sleep_h) ==
    IF FLt(sleep_h, Lit(7)) THEN low
    ELSE IF FGt(sleep_h, Lit(9)) THEN high
    ELSE optimal

\* a variant of risk_modifiers in which the three thresholds trigger their penalty
risk_modifiers_inclusive(bg_level, physical_activity_minutes, sleep_h) ==
    [high_blood_glucose |-> IF FLe(Lit(180), bg_level) THEN 15 ELSE 0,
     low_activity       |-> IF FLe(float(physical_activity_minutes).val, Lit(30)) THEN 10 ELSE 0,
     poor_medication    |-> IF Lower(medication_adherence) = poor THEN 10 ELSE 0,
     poor_sleep         |-> IF FLe(sleep_h, Lit(6)) THEN 8 ELSE 0,
     high_stress        |-> IF Lower(stress_level) = high THEN 7 ELSE 0,
     poor_hydration     |-> IF Lower(hydration_level) = no THEN 5 ELSE 0]

\* a variant of risk_modifiers in which the glucose penalty starts above 300 and the
\* sleep penalty is given for more than 9 hours
risk_modifiers_shifted(bg_level, physical_activity_minutes, sleep_h) ==
    [high_blood_glucose |-> IF FGt(bg_level, Lit(300)) THEN 15 ELSE 0,
     low_activity       |-> IF FLt(float(physical_activity_minutes).val, Lit(30)) THEN 10 ELSE 0,
     poor_medication    |-> IF Lower(medication_adherence) = poor THEN 10 ELSE 0,
     poor_sleep         |-> IF FGt(sleep_h, Lit(9)) THEN 8 ELSE 0,
     high_stress        |-> IF Lower(stress_level) = high THEN 7 ELSE 0,
     poor_hydration     |-> IF Lower(hydration_level) = no THEN 5 ELSE 0]

risk_modifiers_of(bg_level, physical_activity_minutes, sleep_h) ==
    [high_blood_glucose |-> IF FGt(bg_level, Lit(180)) THEN 15 ELSE 0,
     low_activity       |-> IF FLt(float(physical_activity_minutes).val, Lit(30)) THEN 10 ELSE 0,
     poor_medication    |-> IF Lower(medication_adherence) = poor THEN 10 ELSE 0,
     poor_sleep         |-> IF FLt(sleep_h, Lit(6)) THEN 8 ELSE 0,
     high_stress        |-> IF Lower(stress_level) = high THEN 7 ELSE 0,
     poor_hydration     |-> IF Lower(hydration_level) = no THEN 5 ELSE 0]

\* sum(risk_modifiers.values())
SumValues(rm) ==
    rm.high_blood_glucose + rm.low_activity + rm.poor_medication
    + rm.poor_sleep + rm.high_stress + rm.poor_hydration

\* a variant of the adjusted score that is kept between 0 and 100
adjusted_clamped(risk_score, rm) ==
    IF risk_score + SumValues(rm) * ScoreUnit > 100 * ScoreUnit THEN 100 * ScoreUnit
    ELSE IF risk_score + SumValues(rm) * ScoreUnit < 0 THEN 0
    ELSE risk_score + SumValues(rm) * ScoreUnit

\* adjusted_risk_score = risk_score + sum(risk_modifiers.values())
adjusted_of(risk_score, rm) == risk_score + SumValues(rm) * ScoreUnit

\* a variant of the tiers in which 30 and 60 belong to the lower tier
risk_level_inclusive(adjusted) ==
    IF adjusted <= 30 * ScoreUnit THEN Low
    ELSE IF adjusted <= 60 * ScoreUnit THEN Moderate
    ELSE High

risk_level_of(adjusted) ==
    IF adjusted < 30 * ScoreUnit THEN Low
    ELSE IF adjusted < 60 * ScoreUnit THEN Moderate
    ELSE High

\* a variant of the advice keys in which the diet is looked up as it was typed
metric_keys_as_typed(activity_level, bmi_category, bg_status, sleep_status) ==
    << <<"Physical Activity", activity_level>>,
       <<"BMI", bmi_category>>,
       <<"Blood Glucose", bg_status>>,
       <<"Diet", diet>>,
       <<"Medication", Lower(medication_adherence)>>,
       <<"Stress", Lower(stress_level)>>,
       <<"Sleep", sleep_status>>,
       <<"Hydration", Lower(hydration_level)>> >>

\* the keys of the 8 advice lookups of the metric cards, in the order of the cards
metric_keys(activity_level, bmi_category, bg_status, sleep_status) ==
    << <<"Physical Activity", activity_level>>,
       <<"BMI", bmi_category>>,
       <<"Blood Glucose", bg_status>>,
       <<"Diet", Lower(diet)>>,
       <<"Medication", Lower(medication_adherence)>>,
       <<"Stress", Lower(stress_level)>>,
       <<"Sleep", sleep_status>>,
       <<"Hydration", Lower(hydration_level)>> >>

\* the locals of show_feedback that do not depend on the score (lines 415-432)
show_feedback_locals(physical_activity_minutes) ==
    Only({[activity_level |-> determine_activity_level(physical_activity_minutes),
           bg_level       |-> lv[1],
           bg_status      |-> bg_status_of(lv[1]),
           sleep_hours    |-> lv[2],
           sleep_status   |-> sleep_status_of(lv[2]),
           risk_modifiers |-> risk_modifiers_of(lv[1], physical_activity_minutes, lv[2])] :
          lv \in {<<float(blood_glucose).val, float(sleep_hours).val>>}})

\* The feedback window the call builds, and the KeyError of the first advice lookup
\* that fails, if any: the Toplevel with its header and score exists by then, the metric
\* cards and the buttons do not.
feedback_window(risk_score, bmi_category, loc, adjusted_risk_score, keys) ==
    LET missing == {ki \in 1..8 : keys[ki][2] \notin DOMAIN advice[keys[ki][1]]}
        built   == missing = {}
    IN  [e |-> IF built THEN NoException
               ELSE Raise("KeyError", "", keys[CHOOSE ki \in missing : \A kj \in missing : ki <= kj][2],
                          537),
         window |->
            [risk_score          |-> risk_score,
             bmi_category        |-> bmi_category,
             activity_level      |-> loc.activity_level,
             bg_level            |-> loc.bg_level,
             bg_status           |-> loc.bg_status,
             sleep_hours         |-> loc.sleep_hours,
             sleep_status        |-> loc.sleep_status,
             risk_modifiers      |-> loc.risk_modifiers,
             adjusted_risk_score |-> adjusted_risk_score,
             risk_level          |-> risk_level_of(adjusted_risk_score),
             label               |-> [format |-> ".1f", value |-> adjusted_risk_score],
             metrics             |-> IF built
                                     THEN [ki \in 1..8 |->
                                              [title  |-> keys[ki][1],
                                               status |-> keys[ki][2],
                                               advice |-> advice[keys[ki][1]][keys[ki][2]]]]
                                     ELSE <<>>,
             share_btn           |-> built,
             celebration         |-> built /\ adjusted_risk_score < 30 * ScoreUnit]]

show_feedback(risk_score, bmi_category, physical_activity_minutes) ==
    Only({Only({feedback_window(fa[1], fa[2], loc, fa[3], fa[4]) :
                fa \in {<<risk_score, bmi_category,
                          adjusted_of(risk_score, loc.risk_modifiers),
                          metric_keys(loc.activity_level, bmi_category, loc.bg_status,
                                      loc.sleep_status)>>}}) :
          loc \in {show_feedback_locals(physical_activity_minutes)}})

\* ---- submit_daily_data, the whole handler: the new text of the bmi StringVar, the
\* exception that reaches one of the except clauses (if any), the debug block printed
\* (if any) and the feedback window opened (if any)
\* lines 349-406: the features, their scaling, the prediction and the feedback
predict_and_show(bmi_r) ==
    Only({Only({Only({Only({[bmi_set |-> bmi_r.text,
                             e       |-> shown.e,
                             log     |-> <<[features |-> fx, features_scaled |-> fs,
                                            risk_score |-> risk_score]>>,
                             opened  |-> <<shown.window>>] :
                            shown \in {show_feedback(risk_score, bmi_category_of(bmi_r.val),
                                                     physical_activity)}}) :
                      risk_score \in {predict(xgb_model, fs)}}) :
                fs \in {transform(scaler, fx)}}) :
          fx \in {features}})

submit_daily_data ==
    Only({IF bmi_r.kind = "raise"
          THEN [bmi_set |-> bmi, log |-> <<>>, opened |-> <<>>, e |-> bmi_r.e]
          ELSE IF bmi_r.kind = "None"
          THEN [bmi_set |-> bmi, log |-> <<>>, opened |-> <<>>,
                e |-> Raise("ValueError", "Invalid weight or height values", <<>>, 330)]
          ELSE Only({IF invalid # NoException
                     THEN [bmi_set |-> bmi_r.text, log |-> <<>>, opened |-> <<>>,
                           e |-> invalid]
                     ELSE predict_and_show(bmi_r) :
                     invalid \in {validate_daily_data}}) :
          bmi_r \in {calculate_bmi}})

\* ---- share_data_with_clinician, called with the score its button was built with
share_data_with_clinician(risk_score) ==
    IF ~PyInt(age).ok
    THEN [e |-> Raise("ValueError", "invalid literal for int() with base 10", age, 666)]
    ELSE IF ~PyInt(blood_glucose).ok
    THEN [e |-> Raise("ValueError", "invalid literal for int() with base 10", blood_glucose, 670)]
    ELSE IF ~PyInt(physical_activity).ok
    THEN [e |-> Raise("ValueError", "invalid literal for int() with base 10",
                      physical_activity, 672)]
    ELSE IF ~float(sleep_hours).ok
    THEN [e |-> Raise("ValueError", "could not convert string to float", sleep_hours, 675)]
    ELSE [e |-> NoException,
          fhir_data |->
            [user_id |-> user_id,
             name    |-> user_name,
             age     |-> PyInt(age).val,
             records |-> <<[date                 |-> "datetime.now()",
                            blood_glucose        |-> PyInt(blood_glucose).val,
                            diet                 |-> diet,
                            physical_activity    |-> PyInt(physical_activity).val,
                            medication_adherence |-> medication_adherence,
                            stress_level         |-> stress_level,
                            sleep_hours          |-> float(sleep_hours).val,
                            hydration_level      |-> hydration_level,
                            risk_score           |-> risk_score]>>]]

\* ---- the state machine
MaxWindows == 2
NoTable == [columns |-> <<>>]

\* no call of submit_daily_data is being run
NoCall == callback = "idle" /\ reads = <<>>

\* the training script is not run
NoTraining ==
    /\ csv = NoTable /\ training = "none" /\ data = NoTable
    /\ X = NoTable /\ feature_names = <<>>

NoDialog == [by |-> "none", title |-> "", e |-> NoException]
NoPrint == [risk_score |-> "none"]

NotStarted ==
    /\ process = "start"
    /\ xgb_model = NotLoaded
    /\ scaler = NotLoaded
    /\ screen = "none"
    /\ user_id = <<>>
    /\ user_name = <<>>
    /\ age = <<>>
    /\ weight = <<>>
    /\ height = <<>>
    /\ blood_glucose = <<>>
    /\ diet = <<>>
    /\ physical_activity = <<>>
    /\ medication_adherence = <<>>
    /\ stress_level = <<>>
    /\ sleep_hours = <<>>
    /\ hydration_level = <<>>
    /\ bmi = <<>>
    /\ windows = <<>>
    /\ messagebox = NoDialog
    /\ debug_log = NoPrint
    /\ fhir_payload = NoPrint
    /\ current_color_index = 0
    /\ NoCall

Init == NotStarted /\ NoTraining

\* xgb_model = joblib.load('diabetes_risk_model.pkl')
LoadModel ==
    /\ process = "start"
    /\ xgb_model' \in Models
    /\ process' = "model_loaded"
    /\ UNCHANGED <<scaler, screen, user_id, user_name, age, weight, height, blood_glucose,
                   diet, physical_activity, medication_adherence, stress_level,
                   sleep_hours, hydration_level, bmi, windows, messagebox, debug_log,
                   fhir_payload>>
    /\ UNCHANGED <<current_color_index, step_vars, train_vars>>

LoadModelFails ==
    /\ process = "start"
    /\ process' = "failed"
    /\ UNCHANGED <<xgb_model, scaler, screen, user_id, user_name, age, weight, height,
                   blood_glucose, diet, physical_activity, medication_adherence,
                   stress_level, sleep_hours, hydration_level, bmi, windows, messagebox,
                   debug_log, fhir_payload>>
    /\ UNCHANGED <<current_color_index, step_vars, train_vars>>

\* scaler = joblib.load('scaler.pkl')
LoadScaler ==
    /\ process = "model_loaded"
    /\ scaler' \in Scalers
    /\ process' = "loaded"
    /\ UNCHANGED <<xgb_model, screen, user_id, user_name, age, weight, height,
                   blood_glucose, diet, physical_activity, medication_adherence,
                   stress_level, sleep_hours, hydration_level, bmi, windows, messagebox,
                   debug_log, fhir_payload>>
    /\ UNCHANGED <<current_color_index, step_vars, train_vars>>

LoadScalerFails ==
    /\ process = "model_loaded"
    /\ process' = "failed"
    /\ UNCHANGED <<xgb_model, scaler, screen, user_id, user_name, age, weight, height,
                   blood_glucose, diet, physical_activity, medication_adherence,
                   stress_level, sleep_hours, hydration_level, bmi, windows, messagebox,
                   debug_log, fhir_payload>>
    /\ UNCHANGED <<current_color_index, step_vars, train_vars>>

\* a variant of the start in which the forms are shown although a load has failed
Main_after_failed_load ==
    /\ process \in {"loaded", "failed"}
    /\ process' = "running"
    /\ screen' = "profile"
    /\ UNCHANGED <<xgb_model, scaler, user_id, user_name, age, weight, height,
                   blood_glucose, diet, physical_activity, medication_adherence,
                   stress_level, sleep_hours, hydration_level, bmi, windows, messagebox,
                   debug_log, fhir_payload>>
    /\ current_color_index' = 1
    /\ UNCHANGED <<step_vars, train_vars>>

\* root = tk.Tk(); app = DiabetesManagementApp(root); root.mainloop()
Main ==
    /\ process = "loaded"
    /\ process' = "running"
    /\ screen' = "profile"
    /\ UNCHANGED <<xgb_model, scaler, user_id, user_name, age, weight, height,
                   blood_glucose, diet, physical_activity, medication_adherence,
                   stress_level, sleep_hours, hydration_level, bmi, windows, messagebox,
                   debug_log, fhir_payload>>
    /\ current_color_index' = 1
    /\ UNCHANGED <<step_vars, train_vars>>

\* the user edits an entry of the form that is shown
TypeUserId ==
    /\ process = "running" /\ screen = "profile" /\ messagebox = NoDialog
    /\ \E typed \in EntryUserId : user_id' = typed
    /\ UNCHANGED <<process, xgb_model, scaler, screen, user_name, age, weight, height,
                   blood_glucose, diet, physical_activity, medication_adherence,
                   stress_level, sleep_hours, hydration_level, bmi, windows, messagebox,
                   debug_log, fhir_payload>>
    /\ UNCHANGED <<current_color_index, step_vars, train_vars>>

TypeUserName ==
    /\ process = "running" /\ screen = "profile" /\ messagebox = NoDialog
    /\ \E typed \in EntryUserName : user_name' = typed
    /\ UNCHANGED <<process, xgb_model, scaler, screen, user_id, age, weight, height,
                   blood_glucose, diet, physical_activity, medication_adherence,
                   stress_level, sleep_hours, hydration_level, bmi, windows, messagebox,
                   debug_log, fhir_payload>>
    /\ UNCHANGED <<current_color_index, step_vars, train_vars>>

TypeAge ==
    /\ process = "running" /\ screen = "profile" /\ messagebox = NoDialog
    /\ \E typed \in EntryAge : age' = typed
    /\ UNCHANGED <<process, xgb_model, scaler, screen, user_id, user_name, weight, height,
                   blood_glucose, diet, physical_activity, medication_adherence,
                   stress_level, sleep_hours, hydration_level, bmi, windows, messagebox,
                   debug_log, fhir_payload>>
    /\ UNCHANGED <<current_color_index, step_vars, train_vars>>

TypeWeight ==
    /\ process = "running" /\ screen = "profile" /\ messagebox = NoDialog
    /\ \E typed \in EntryWeight : weight' = typed
    /\ UNCHANGED <<process, xgb_model, scaler, screen, user_id, user_name, age, height,
                   blood_glucose, diet, physical_activity, medication_adherence,
                   stress_level, sleep_hours, hydration_level, bmi, windows, messagebox,
                   debug_log, fhir_payload>>
    /\ UNCHANGED <<current_color_index, step_vars, train_vars>>

TypeHeight ==
    /\ process = "running" /\ screen = "profile" /\ messagebox = NoDialog
    /\ \E typed \in EntryHeight : height' = typed
    /\ UNCHANGED <<process, xgb_model, scaler, screen, user_id, user_name, age, weight,
                   blood_glucose, diet, physical_activity, medication_adherence,
                   stress_level, sleep_hours, hydration_level, bmi, windows, messagebox,
                   debug_log, fhir_payload>>
    /\ UNCHANGED <<current_color_index, step_vars, train_vars>>

TypeBloodGlucose ==
    /\ process = "running" /\ screen = "daily" /\ messagebox = NoDialog
    /\ \E typed \in EntryBloodGlucose : blood_glucose' = typed
    /\ UNCHANGED <<process, xgb_model, scaler, screen, user_id, user_name, age, weight,
                   height, diet, physical_activity, medication_adherence, stress_level,
                   sleep_hours, hydration_level, bmi, windows, messagebox, debug_log,
                   fhir_payload>>
    /\ UNCHANGED <<current_color_index, step_vars, train_vars>>

TypeDiet ==
    /\ process = "running" /\ screen = "daily" /\ messagebox = NoDialog
    /\ \E typed \in EntryDiet : diet' = typed
    /\ UNCHANGED <<process, xgb_model, scaler, screen, user_id, user_name, age, weight,
                   height, blood_glucose, physical_activity, medication_adherence,
                   stress_level, sleep_hours, hydration_level, bmi, windows, messagebox,
                   debug_log, fhir_payload>>
    /\ UNCHANGED <<current_color_index, step_vars, train_vars>>

TypePhysicalActivity ==
    /\ process = "running" /\ screen = "daily" /\ messagebox = NoDialog
    /\ \E typed \in EntryPhysicalActivity : physical_activity' = typed
    /\ UNCHANGED <<process, xgb_model, scaler, screen, user_id, user_name, age, weight,
                   height, blood_glucose, diet, medication_adherence, stress_level,
                   sleep_hours, hydration_level, bmi, windows, messagebox, debug_log,
                   fhir_payload>>
    /\ UNCHANGED <<current_color_index, step_vars, train_vars>>

TypeMedicationAdherence ==
    /\ process = "running" /\ screen = "daily" /\ messagebox = NoDialog
    /\ \E typed \in EntryMedicationAdherence : medication_adherence' = typed
    /\ UNCHANGED <<process, xgb_model, scaler, screen, user_id, user_name, age, weight,
                   height, blood_glucose, diet, physical_activity, stress_level,
                   sleep_hours, hydration_level, bmi, windows, messagebox, debug_log,
                   fhir_payload>>
    /\ UNCHANGED <<current_color_index, step_vars, train_vars>>

TypeStressLevel ==
    /\ process = "running" /\ screen = "daily" /\ messagebox = NoDialog
    /\ \E typed \in EntryStressLevel : stress_level' = typed
    /\ UNCHANGED <<process, xgb_model, scaler, screen, user_id, user_name, age, weight,
                   height, blood_glucose, diet, physical_activity, medication_adherence,
                   sleep_hours, hydration_level, bmi, windows, messagebox, debug_log,
                   fhir_payload>>
    /\ UNCHANGED <<current_color_index, step_vars, train_vars>>

TypeSleepHours ==
    /\ process = "running" /\ screen = "daily" /\ messagebox = NoDialog
    /\ \E typed \in EntrySleepHours : sleep_hours' = typed
    /\ UNCHANGED <<process, xgb_model, scaler, screen, user_id, user_name, age, weight,
                   height, blood_glucose, diet, physical_activity, medication_adherence,
                   stress_level, hydration_level, bmi, windows, messagebox, debug_log,
                   fhir_payload>>
    /\ UNCHANGED <<current_color_index, step_vars, train_vars>>

TypeHydrationLevel ==
    /\ process = "running" /\ screen = "daily" /\ messagebox = NoDialog
    /\ \E typed \in EntryHydrationLevel : hydration_level' = typed
    /\ UNCHANGED <<process, xgb_model, scaler, screen, user_id, user_name, age, weight,
                   height, blood_glucose, diet, physical_activity, medication_adherence,
                   stress_level, sleep_hours, bmi, windows, messagebox, debug_log,
                   fhir_payload>>
    /\ UNCHANGED <<current_color_index, step_vars, train_vars>>

SubmitUserInfo ==
    /\ process = "running" /\ screen = "profile" /\ messagebox = NoDialog
    /\ \E raised \in {submit_user_info} :
          IF raised = NoException
          THEN screen' = "daily" /\ UNCHANGED messagebox
          ELSE /\ messagebox' = [by |-> "submit_user_info", title |-> "Input Error",
                                 e |-> raised]
               /\ UNCHANGED screen
    /\ UNCHANGED <<process, xgb_model, scaler, user_id, user_name, age, weight, height,
                   blood_glucose, diet, physical_activity, medication_adherence,
                   stress_level, sleep_hours, hydration_level, bmi, windows, debug_log,
                   fhir_payload>>
    /\ UNCHANGED <<current_color_index, step_vars, train_vars>>

SubmitDailyData ==
    /\ process = "running" /\ screen = "daily" /\ messagebox = NoDialog
    /\ \E done \in {submit_daily_data} :
          /\ Len(windows) + Len(done.opened) <= MaxWindows
          /\ bmi' = done.bmi_set
          /\ debug_log' = IF done.log = <<>> THEN debug_log ELSE done.log[1]
          /\ windows' = windows \o done.opened
          /\ messagebox' =
                IF done.e = NoException THEN NoDialog
                ELSE [by    |-> "submit_daily_data",
                      title |-> IF done.e.type = "ValueError" THEN "Input Error" ELSE "Error",
                      e     |-> done.e]
    /\ UNCHANGED <<process, xgb_model, scaler, screen, user_id, user_name, age, weight,
                   height, blood_glucose, diet, physical_activity, medication_adherence,
                   stress_level, sleep_hours, hydration_level, fhir_payload>>
    /\ UNCHANGED <<current_color_index, step_vars, train_vars>>

\* the "Share with Doctor" button of a feedback window; an exception of the handler
\* ends the callback and changes nothing
ShareWithClinician ==
    /\ process = "running" /\ messagebox = NoDialog
    /\ \E wi \in 1..Len(windows) :
          /\ windows[wi].share_btn
          /\ \E shared \in {share_data_with_clinician(windows[wi].adjusted_risk_score)} :
                 IF shared.e = NoException
                 THEN /\ fhir_payload' = shared.fhir_data
                      /\ messagebox' = [by |-> "share_data_with_clinician",
                                        title |-> "Data Sync", e |-> NoException]
                 ELSE UNCHANGED <<fhir_payload, messagebox>>
    /\ UNCHANGED <<process, xgb_model, scaler, screen, user_id, user_name, age, weight,
                   height, blood_glucose, diet, physical_activity, medication_adherence,
                   stress_level, sleep_hours, hydration_level, bmi, windows, debug_log>>
    /\ UNCHANGED <<current_color_index, step_vars, train_vars>>

\* the "Close Dashboard" button of a feedback window
CloseWindow ==
    /\ process = "running" /\ messagebox = NoDialog
    /\ \E wi \in 1..Len(windows) :
          windows' = SubSeq(windows, 1, wi - 1) \o SubSeq(windows, wi + 1, Len(windows))
    /\ UNCHANGED <<process, xgb_model, scaler, screen, user_id, user_name, age, weight,
                   height, blood_glucose, diet, physical_activity, medication_adherence,
                   stress_level, sleep_hours, hydration_level, bmi, messagebox, debug_log,
                   fhir_payload>>
    /\ UNCHANGED <<current_color_index, step_vars, train_vars>>

\* the user closes the message box and the handler that showed it returns
DismissDialog ==
    /\ messagebox # NoDialog
    /\ messagebox' = NoDialog
    /\ UNCHANGED <<process, xgb_model, scaler, screen, user_id, user_name, age, weight,
                   height, blood_glucose, diet, physical_activity, medication_adherence,
                   stress_level, sleep_hours, hydration_level, bmi, windows, debug_log,
                   fhir_payload>>
    /\ UNCHANGED <<current_color_index, step_vars, train_vars>>

Next ==
    \/ LoadModel \/ LoadModelFails \/ LoadScaler \/ LoadScalerFails \/ Main
    \/ TypeUserId \/ TypeUserName \/ TypeAge \/ TypeWeight \/ TypeHeight
    \/ TypeBloodGlucose \/ TypeDiet \/ TypePhysicalActivity \/ TypeMedicationAdherence
    \/ TypeStressLevel \/ TypeSleepHours \/ TypeHydrationLevel
    \/ SubmitUserInfo \/ SubmitDailyData \/ ShareWithClinician \/ CloseWindow
    \/ DismissDialog

Spec == Init /\ [][Next]_vars

\* ---- the forms studied on their own: the application is running, a form is filled
\* in, and the handlers run on it
RunningQuiet ==
    /\ process = "running" /\ scaler \in Scalers
    /\ bmi = <<>> /\ windows = <<>> /\ messagebox = NoDialog
    /\ debug_log = NoPrint /\ fhir_payload = NoPrint
    /\ current_color_index = 1 /\ NoCall /\ NoTraining

ValidProfile(weight_s, height_s) ==
    /\ user_id = <<"u", "1">> /\ user_name = <<"A", "n", "n">> /\ age = <<"4", "5">>
    /\ weight = weight_s /\ height = height_s

\* every profile form, the daily form still empty
ProfileSweep ==
    /\ screen = "profile" /\ xgb_model \in Models
    /\ user_id \in SweepUserId /\ user_name \in SweepUserName /\ age \in SweepAge
    /\ weight \in SweepWeight /\ height \in SweepHeight
    /\ blood_glucose = <<>> /\ diet = <<>> /\ physical_activity = <<>>
    /\ medication_adherence = <<>> /\ stress_level = <<>> /\ sleep_hours = <<>>
    /\ hydration_level = <<>>

\* every weight and height of the BMI study, one observation
BmiSweep ==
    /\ screen = "daily" /\ xgb_model \in Models
    /\ \E wh \in BmiWeight \X BmiHeight : ValidProfile(wh[1], wh[2])
    /\ blood_glucose = <<"1", "9", "0">> /\ diet = <<"H", "e", "a", "l", "t", "h", "y">> /\ physical_activity = <<"2", "0">>
    /\ medication_adherence = <<"p", "o", "o", "r">> /\ stress_level = <<"H", "I", "G", "H">> /\ sleep_hours = <<"5", ".", "5">>
    /\ hydration_level = <<"n", "o">>

\* every observation of the penalty study, one profile
ObservationSweep ==
    /\ screen = "daily" /\ xgb_model \in Models
    /\ ValidProfile(<<"8", "0">>, <<"1", "7", "0">>)
    /\ blood_glucose \in ObsBloodGlucose /\ diet \in ObsDiet
    /\ physical_activity \in ObsPhysicalActivity
    /\ medication_adherence \in ObsMedicationAdherence /\ stress_level \in ObsStressLevel
    /\ sleep_hours \in ObsSleepHours /\ hydration_level \in ObsHydrationLevel

\* every base score, each set of penalties
ScoreSweep ==
    /\ screen = "daily" /\ xgb_model \in ScoreModels
    /\ ValidProfile(<<"8", "0">>, <<"1", "7", "0">>)
    /\ blood_glucose \in {<<"7", "0">>, <<"1", "8", "1">>} /\ diet = <<"h", "e", "a", "l", "t", "h", "y">>
    /\ physical_activity \in {<<"2", "9">>, <<"3", "0">>}
    /\ medication_adherence \in ObsMedicationAdherence /\ stress_level \in {<<"l", "o", "w">>, <<"H", "I", "G", "H">>}
    /\ sleep_hours \in {<<"5", ".", "9">>, <<"6">>} /\ hydration_level \in ObsHydrationLevel

\* every daily form of the validation study, on a profile whose BMI can be computed and
\* on one whose BMI cannot
ValidationSweep ==
    /\ screen = "daily" /\ xgb_model \in Models
    /\ \E height_s \in {<<"1", "6", "0">>, TinyHeight} : ValidProfile(<<"6", "4">>, height_s)
    /\ blood_glucose \in SweepBloodGlucose /\ diet \in SweepDiet
    /\ physical_activity \in SweepPhysicalActivity
    /\ medication_adherence \in SweepMedicationAdherence /\ stress_level \in SweepStressLevel
    /\ sleep_hours \in SweepSleepHours /\ hydration_level \in SweepHydrationLevel

InitAssess ==
    /\ RunningQuiet
    /\ ProfileSweep \/ BmiSweep \/ ObservationSweep \/ ScoreSweep \/ ValidationSweep

NextAssess ==
    \/ SubmitUserInfo \/ SubmitDailyData \/ ShareWithClinician \/ CloseWindow
    \/ DismissDialog

SpecAssess == InitAssess /\ [][NextAssess]_vars

\* ---- the typed texts read as the decimal numbers they write
IsNumeral(str) == Len(str) > 0 /\ AllAsciiDigits(str)

IsDecimal(str) == Len(ReplaceFirstDot(str)) > 0 /\ AllAsciiDigits(ReplaceFirstDot(str))

NonZero(str) == \E si \in 1..Len(str) : str[si] \notin {"0", "."}

PositiveInteger(str) == IsNumeral(str) /\ NonZero(str)

PositiveReal(str) == IsDecimal(str) /\ NonZero(str)

\* the number of digits after the decimal point, and the number as an integer count of
\* that decimal place
Decimals(str) ==
    IF \E si \in 1..Len(str) : str[si] = "."
    THEN Len(str) - (CHOOSE si \in 1..Len(str) : str[si] = ".")
    ELSE 0

Scaled(str) == DigitsValue(ReplaceFirstDot(str))

Below(str, n) == Scaled(str) < n * Pow10[Decimals(str) + 1]

Total(rm) ==
    rm.high_blood_glucose + rm.low_activity + rm.poor_medication + rm.poor_sleep
    + rm.high_stress + rm.poor_hydration

\* the penalties the rule table gives the observation in the daily form
TablePenalties ==
    [high_blood_glucose |-> IF Scaled(blood_glucose) > 180 THEN 15 ELSE 0,
     low_activity       |-> IF Scaled(physical_activity) < 30 THEN 10 ELSE 0,
     poor_medication    |-> IF Lower(medication_adherence) = <<"p", "o", "o", "r">> THEN 10 ELSE 0,
     poor_sleep         |-> IF Below(sleep_hours, 6) THEN 8 ELSE 0,
     high_stress        |-> IF Lower(stress_level) = <<"h", "i", "g", "h">> THEN 7 ELSE 0,
     poor_hydration     |-> IF Lower(hydration_level) = <<"n", "o">> THEN 5 ELSE 0]

AllSix == [high_blood_glucose |-> 15, low_activity |-> 10, poor_medication |-> 10,
           poor_sleep |-> 8, high_stress |-> 7, poor_hydration |-> 5]

\* C1: every feedback window of an observation that passed validation carries exactly
\* the penalties of the rule table (+15 iff blood glucose > 180, +10 iff activity < 30,
\* +10 iff medication adherence is poor, +8 iff sleep < 6, +7 iff stress is high, +5 iff
\* hydration is no), every rule decided on the typed value on its own, nothing for the
\* values 180, 30 and 6, and 55 in all when the six apply.
C1_PenaltyTable ==
    \A wi \in 1..Len(windows) :
        /\ windows[wi].risk_modifiers = TablePenalties
        /\ windows[wi].risk_modifiers = AllSix => Total(windows[wi].risk_modifiers) = 55
        /\ blood_glucose = <<"1", "8", "0">> => windows[wi].risk_modifiers.high_blood_glucose = 0
        /\ physical_activity = <<"3", "0">> => windows[wi].risk_modifiers.low_activity = 0
        /\ sleep_hours = <<"6">> => windows[wi].risk_modifiers.poor_sleep = 0

C1_AllSixApply ==
    \E wi \in 1..Len(windows) : windows[wi].risk_modifiers = AllSix

Tier(points) ==
    IF points < 30 * ScoreUnit THEN <<"L", "o", "w">>
    ELSE IF points < 60 * ScoreUnit THEN <<"M", "o", "d", "e", "r", "a", "t", "e">>
    ELSE <<"H", "i", "g", "h">>

\* C2: the adjusted score of every feedback window is the base score the predictor
\* returned plus the sum of the penalties, with no floor and no ceiling, and that one
\* value is the one classified into the tier, the one displayed and the one in the
\* payload for the clinician.
C2_AdjustedScore ==
    /\ \A wi \in 1..Len(windows) :
          /\ windows[wi].risk_score = debug_log.risk_score
          /\ windows[wi].adjusted_risk_score
                = debug_log.risk_score + Total(windows[wi].risk_modifiers) * ScoreUnit
          /\ windows[wi].risk_level = Tier(windows[wi].adjusted_risk_score)
          /\ windows[wi].label.value = windows[wi].adjusted_risk_score
    /\ fhir_payload # NoPrint =>
          fhir_payload.records[1].risk_score
             = debug_log.risk_score + Total(TablePenalties) * ScoreUnit

C2_SharedAbove100 ==
    /\ fhir_payload # NoPrint
    /\ debug_log.risk_score > 100 * ScoreUnit
    /\ fhir_payload.records[1].risk_score > debug_log.risk_score

Encoded(str, codes) == codes[Lower(str)]

\* C4: the array handed to the scaler has the 10 positions weight, height, BMI, blood
\* glucose, activity minutes, diet, medication adherence, stress level, sleep hours,
\* hydration, in this order, with the typed numbers unscaled and the codes healthy 1,
\* unhealthy 0, good 1, poor 0, low 0, medium 1, high 2, yes 1, no 0 whatever the letter
\* case; the activity level is not in it; the scaler is applied to it before the
\* prediction.
C4_FeatureVector ==
    debug_log # NoPrint =>
        /\ Len(debug_log.features) = 10
        /\ debug_log.features =
              << float(weight).val, float(height).val, calculate_bmi.val,
                 float(blood_glucose).val, float(physical_activity).val,
                 Encoded(diet, (<<"h", "e", "a", "l", "t", "h", "y">> :> 1) @@ (<<"u", "n", "h", "e", "a", "l", "t", "h", "y">> :> 0)),
                 Encoded(medication_adherence, (<<"g", "o", "o", "d">> :> 1) @@ (<<"p", "o", "o", "r">> :> 0)),
                 Encoded(stress_level, (<<"l", "o", "w">> :> 0) @@ (<<"m", "e", "d", "i", "u", "m">> :> 1) @@ (<<"h", "i", "g", "h">> :> 2)),
                 float(sleep_hours).val,
                 Encoded(hydration_level, (<<"y", "e", "s">> :> 1) @@ (<<"n", "o">> :> 0)) >>
        /\ debug_log.features_scaled =
              [fi \in 1..10 |-> [x |-> debug_log.features[fi], mean |-> scaler.mean[fi],
                                 scale |-> scaler.scale[fi]]]

C4_MixedCaseEncoded ==
    /\ debug_log # NoPrint
    /\ diet = <<"U", "n", "h", "e", "a", "l", "t", "h", "y">> /\ medication_adherence = <<"g", "o", "o", "d">>
    /\ stress_level = <<"H", "I", "G", "H">> /\ hydration_level = <<"N", "o">>
    /\ debug_log.features[6] = 0 /\ debug_log.features[7] = 1
    /\ debug_log.features[8] = 2 /\ debug_log.features[10] = 0

\* the rules of the daily form, on the typed texts
DailyRules ==
    << PositiveInteger(blood_glucose),
       Lower(diet) \in {<<"h", "e", "a", "l", "t", "h", "y">>, <<"u", "n", "h", "e", "a", "l", "t", "h", "y">>},
       IsNumeral(physical_activity),
       Lower(medication_adherence) \in {<<"g", "o", "o", "d">>, <<"p", "o", "o", "r">>},
       Lower(stress_level) \in {<<"l", "o", "w">>, <<"m", "e", "d", "i", "u", "m">>, <<"h", "i", "g", "h">>},
       IsDecimal(sleep_hours),
       Lower(hydration_level) \in {<<"y", "e", "s">>, <<"n", "o">>} >>

\* the rules of the profile form
ProfileRules ==
    << Len(user_id) > 0 /\ Len(user_name) > 0,
       PositiveInteger(age),
       PositiveReal(weight),
       PositiveReal(height) >>

AllHold(rules) == \A ri \in 1..Len(rules) : rules[ri]

\* the first rule that is violated (some rule is)
FirstViolated(rules) ==
    CHOOSE ri \in 1..Len(rules) : ~rules[ri] /\ \A rj \in 1..(ri - 1) : rules[rj]

\* the source lines of the checks, in the checking order: the `if` of a rule and the
\* `raise` under it
ProfileRuleLines == << {221, 222}, {223, 224}, {225, 226}, {227, 228} >>
DailyRuleLines ==
    << {333, 334}, {335, 336}, {337, 338}, {339, 340}, {341, 342}, {343, 344}, {345, 346} >>

\* C5: a submission of the daily form opens a feedback window (and so predicts, adjusts
\* and classifies) only if the seven fields are valid, and a submission with a field
\* that violates its rule is rejected with a validation error - the "Input Error" dialog
\* of a ValueError - with no prediction and no feedback window.
C5_DailyValidation ==
    [][SubmitDailyData =>
          /\ Len(windows') > Len(windows) => AllHold(DailyRules)
          /\ ~AllHold(DailyRules) =>
                /\ messagebox'.title = "Input Error"
                /\ messagebox'.e.type = "ValueError"
                /\ windows' = windows
                /\ debug_log' = debug_log]_vars

\* C6: a submission with several invalid fields reports exactly one error, the one of
\* the first violated rule in the checking order (profile: id and name, age, weight,
\* height; daily: blood glucose, diet, physical activity, medication adherence, stress
\* level, sleep hours, hydration).
C6_FailFast ==
    [][/\ SubmitUserInfo /\ ~AllHold(ProfileRules) =>
             /\ messagebox'.by = "submit_user_info"
             /\ messagebox'.e.line \in ProfileRuleLines[FirstViolated(ProfileRules)]
       /\ SubmitDailyData /\ ~AllHold(DailyRules) =>
             /\ messagebox'.by = "submit_daily_data"
             /\ messagebox'.e.line \in DailyRuleLines[FirstViolated(DailyRules)]]_vars

\* C7: the daily form is shown, and an assessment computed, only after a submit_user_info
\* on non-empty id and name, a positive integer age and positive weight and height; a
\* rejected submission leaves the profile form shown with its fields as typed, and a
\* valid submission from the profile form shows the daily form.
C7_ProfileGate ==
    /\ [](screen = "daily" => AllHold(ProfileRules))
    /\ [](Len(windows) > 0 \/ debug_log # NoPrint => screen = "daily")
    /\ [][screen' = "daily" /\ screen # "daily" => SubmitUserInfo /\ AllHold(ProfileRules)]_vars
    /\ [][SubmitUserInfo /\ ~AllHold(ProfileRules) =>
             /\ screen' = "profile" /\ messagebox'.title = "Input Error"
             /\ UNCHANGED <<user_id, user_name, age, weight, height>>]_vars
    /\ [][SubmitUserInfo /\ AllHold(ProfileRules) => screen' = "daily"]_vars

C7_AssessedAfterProfile ==
    /\ screen = "daily" /\ Len(windows) > 0
    /\ AllHold(ProfileRules)

\* the category of the BMI weight / (height / 100)^2 of the typed weight and height:
\* BMI < n / d is weight * 10^4 * d < n * height^2, in whole numbers
BmiBelow(n, d) ==
    Scaled(weight) * 10000 * Pow10[Decimals(height) + 1] * Pow10[Decimals(height) + 1] * d
       < n * Scaled(height) * Scaled(height) * Pow10[Decimals(weight) + 1]

BmiCategory ==
    IF BmiBelow(37, 2) THEN <<"U", "n", "d", "e", "r", "w", "e", "i", "g", "h", "t">>
    ELSE IF BmiBelow(25, 1) THEN <<"N", "o", "r", "m", "a", "l", " ", "w", "e", "i", "g", "h", "t">>
    ELSE IF BmiBelow(30, 1) THEN <<"O", "v", "e", "r", "w", "e", "i", "g", "h", "t">>
    ELSE <<"O", "b", "e", "s", "e">>

\* C8: the BMI category of every feedback window is that of weight / (height / 100)^2:
\* Underweight iff BMI < 18.5, Normal weight iff 18.5 <= BMI < 25, Overweight iff
\* 25 <= BMI < 30, Obese iff BMI >= 30, the values 18.5, 25 and 30 in the higher
\* category; weight 70 and height 175 give Normal weight.
C8_BmiCategory ==
    \A wi \in 1..Len(windows) :
        /\ windows[wi].bmi_category = BmiCategory
        /\ weight = <<"7", "0">> /\ height = <<"1", "7", "5">> => windows[wi].bmi_category = <<"N", "o", "r", "m", "a", "l", " ", "w", "e", "i", "g", "h", "t">>

\* C9: the activity level of every feedback window is low iff minutes < 30, moderate
\* iff 30 <= minutes < 60, high iff minutes >= 60: 29 is low, 30 and 59 are moderate,
\* 60 is high.
C9_ActivityLevel ==
    \A wi \in 1..Len(windows) :
        /\ windows[wi].activity_level \in {<<"l", "o", "w">>, <<"m", "o", "d", "e", "r", "a", "t", "e">>, <<"h", "i", "g", "h">>}
        /\ windows[wi].activity_level = <<"l", "o", "w">> <=> Scaled(physical_activity) < 30
        /\ windows[wi].activity_level = <<"m", "o", "d", "e", "r", "a", "t", "e">>
              <=> 30 <= Scaled(physical_activity) /\ Scaled(physical_activity) < 60
        /\ windows[wi].activity_level = <<"h", "i", "g", "h">> <=> Scaled(physical_activity) >= 60
        /\ physical_activity = <<"2", "9">> => windows[wi].activity_level = <<"l", "o", "w">>
        /\ physical_activity \in {<<"3", "0">>, <<"5", "9">>} => windows[wi].activity_level = <<"m", "o", "d", "e", "r", "a", "t", "e">>
        /\ physical_activity = <<"6", "0">> => windows[wi].activity_level = <<"h", "i", "g", "h">>

C9_ThirtyIsModerate ==
    \E wi \in 1..Len(windows) :
        physical_activity = <<"3", "0">> /\ windows[wi].activity_level = <<"m", "o", "d", "e", "r", "a", "t", "e">>

\* C10: the blood glucose status of every feedback window is extreme iff glucose > 300,
\* low iff glucose < 70, high iff 180 < glucose <= 300, normal iff 70 <= glucose <= 180:
\* one and only one of the four.
C10_GlucoseStatus ==
    \A wi \in 1..Len(windows) :
        /\ windows[wi].bg_status \in {<<"e", "x", "t", "r", "e", "m", "e">>, <<"l", "o", "w">>, <<"h", "i", "g", "h">>, <<"n", "o", "r", "m", "a", "l">>}
        /\ windows[wi].bg_status = <<"e", "x", "t", "r", "e", "m", "e">> <=> Scaled(blood_glucose) > 300
        /\ windows[wi].bg_status = <<"l", "o", "w">> <=> Scaled(blood_glucose) < 70
        /\ windows[wi].bg_status = <<"h", "i", "g", "h">>
              <=> 180 < Scaled(blood_glucose) /\ Scaled(blood_glucose) <= 300
        /\ windows[wi].bg_status = <<"n", "o", "r", "m", "a", "l">>
              <=> 70 <= Scaled(blood_glucose) /\ Scaled(blood_glucose) <= 180

C10_ThreeHundredIsHigh ==
    \E wi \in 1..Len(windows) :
        blood_glucose = <<"3", "0", "0">> /\ windows[wi].bg_status = <<"h", "i", "g", "h">>

\* the decimal numeral str denotes a number above the integer n
Above(str, n) == Scaled(str) > n * Pow10[Decimals(str) + 1]

\* C11: in every feedback window the sleep status is low exactly when the hours of
\* sleep typed in the daily form are below 7, high exactly when they are above 9 and
\* optimal exactly when they are from 7 to 9, both included.
C11_SleepStatus ==
    \A wi \in 1..Len(windows) :
        /\ windows[wi].sleep_status \in {low, optimal, high}
        /\ windows[wi].sleep_status = low <=> Below(sleep_hours, 7)
        /\ windows[wi].sleep_status = high <=> Above(sleep_hours, 9)
        /\ windows[wi].sleep_status = optimal
              <=> (~Below(sleep_hours, 7) /\ ~Above(sleep_hours, 9))

\* a feedback window is open for exactly 7 hours of sleep, and its status is optimal
C11_SevenIsOptimal ==
    /\ Len(windows) > 0
    /\ sleep_hours = <<"7">>
    /\ windows[1].sleep_status = optimal

\* C12: no submission ends with a missing advice key, and every feedback window that
\* is open carries its 8 metric cards, each with the advice text its status selects in
\* the advice table, whatever the letter case of the categorical values typed.
C12_AdviceFound ==
    /\ messagebox.e.type # "KeyError"
    /\ \A wi \in 1..Len(windows) :
          /\ windows[wi].share_btn
          /\ DOMAIN windows[wi].metrics = 1..8
          /\ \A ki \in 1..8 :
                /\ windows[wi].metrics[ki].status \in DOMAIN advice[windows[wi].metrics[ki].title]
                /\ windows[wi].metrics[ki].advice
                      = advice[windows[wi].metrics[ki].title][windows[wi].metrics[ki].status]

\* a feedback window is open for categorical values typed with capital letters, and its
\* diet and hydration cards carry the advice of the lower-cased value
C12_MixedCaseAdvised ==
    /\ Len(windows) > 0
    /\ diet # Lower(diet)
    /\ hydration_level # Lower(hydration_level)
    /\ windows[1].metrics[4].advice = advice["Diet"][Lower(diet)]
    /\ windows[1].metrics[8].advice = advice["Hydration"][Lower(hydration_level)]

C14_OnlyValidationCaught ==
    /\ [](messagebox.by = "submit_daily_data" =>
             messagebox.e.type = "ValueError" /\ messagebox.title = "Input Error")
    /\ [][SubmitDailyData /\ messagebox'.e.type \notin {"None", "ValueError"} =>
             process' # "running"]_vars

\* the seven observation fields of an exported record
ObservationKeys == {"blood_glucose", "diet", "physical_activity", "medication_adherence",
                    "stress_level", "sleep_hours", "hydration_level"}

\* C15: the payload printed by share_data_with_clinician carries the user id, the name
\* and the age, and its record the timestamp, the seven observation fields and, besides
\* them, at least five more items: the base score, the breakdown of the adjustment, the
\* adjusted score, the risk tier and the metric cards with their advice.
C15_ExportComplete ==
    fhir_payload # NoPrint =>
        /\ {"user_id", "name", "age", "records"} \subseteq DOMAIN fhir_payload
        /\ Len(fhir_payload.records) = 1
        /\ ObservationKeys \cup {"date"} \subseteq DOMAIN fhir_payload.records[1]
        /\ Cardinality(DOMAIN fhir_payload.records[1] \ (ObservationKeys \cup {"date"})) >= 5

\* C16: a form is shown only when the model and the scaler are loaded; each of them is
\* assigned once, from the unloaded state and before any form is shown; after a failed
\* load no step is taken, no form is shown and nothing is assessed; a submission leaves
\* the model and the scaler as they are.
C16_LoadedOnceAtStart ==
    /\ [](screen # "none" => xgb_model \in Models /\ scaler \in Scalers)
    /\ [](process = "failed" =>
             screen = "none" /\ windows = <<>> /\ debug_log = NoPrint /\ bmi = <<>>)
    /\ [][process # "failed"]_vars
    /\ [][xgb_model' # xgb_model =>
             xgb_model = NotLoaded /\ process = "start" /\ screen = "none"]_vars
    /\ [][scaler' # scaler =>
             scaler = NotLoaded /\ process = "model_loaded" /\ screen = "none"]_vars
    /\ [][SubmitDailyData => UNCHANGED <<xgb_model, scaler>>]_vars

\* the model was loaded and the load of the scaler failed: the process has stopped
\* without a form
C16_ScalerLoadFailed ==
    /\ process = "failed"
    /\ xgb_model \in Models
    /\ scaler = NotLoaded
    /\ screen = "none"

\* C18: the payload a share prints carries the observation of the assessment it shares:
\* a feedback window that is open has the exported score as its adjusted score and was
\* computed from the exported blood glucose and the exported hours of sleep.
C18_SharedAsAssessed ==
    [][ShareWithClinician /\ messagebox'.title = "Data Sync" =>
          \E wi \in 1..Len(windows) :
              /\ windows[wi].adjusted_risk_score = fhir_payload'.records[1].risk_score
              /\ windows[wi].bg_level
                    = float(IntToStr(fhir_payload'.records[1].blood_glucose)).val
              /\ windows[wi].sleep_hours = fhir_payload'.records[1].sleep_hours]_vars

\* C20: for a weight and a height that are both numbers, calculate_bmi fails exactly
\* when the height is zero: it raises then, returning no BMI, and for every other
\* height it returns the BMI.
C20_ZeroHeightOnly ==
    float(weight).ok /\ float(height).ok =>
        /\ calculate_bmi.kind \in {"raise", "return"}
        /\ calculate_bmi.kind = "raise" <=> ~NonZero(height)

\* ---- the training script (datapreprocessing&modeltrainning.py)
required_columns ==
    <<"user_id", "date", "weight", "height", "bmi", "blood_glucose", "physical_activity",
      "diet", "medication_adherence", "stress_level", "sleep_hours", "hydration_level",
      "risk_score">>

\* the names of the columns of a frame
Columns(frame) == {frame.columns[ci] : ci \in 1..Len(frame.columns)}

\* DataFrame.drop(columns=...): the other columns, in the order they had
drop(frame, dropped) ==
    LET kept(column) == column \notin dropped
    IN  [columns |-> SelectSeq(frame.columns, kept)]

\* headers of diabetes_data.csv: the required columns in the order of required_columns,
\* that header without one of its columns, with two neighbouring columns exchanged,
\* and with one more column
Without(header, hi) == SubSeq(header, 1, hi - 1) \o SubSeq(header, hi + 1, Len(header))

Exchanged(header, hi) ==
    SubSeq(header, 1, hi - 1) \o <<header[hi + 1], header[hi]>>
    \o SubSeq(header, hi + 2, Len(header))

WithColumn(header, hi, column) ==
    SubSeq(header, 1, hi) \o <<column>> \o SubSeq(header, hi + 1, Len(header))

CsvHeaders ==
    {required_columns}
    \cup {Without(required_columns, hi) : hi \in 1..Len(required_columns)}
    \cup {Exchanged(required_columns, hi) : hi \in 1..(Len(required_columns) - 1)}
    \cup {WithColumn(required_columns, hi, "age") : hi \in 0..Len(required_columns)}

\* data = load_and_validate_data('diabetes_data.csv')
LoadAndValidateData ==
    /\ training = "start"
    /\ IF \A ci \in 1..Len(required_columns) : required_columns[ci] \in Columns(csv)
       THEN data' = csv /\ training' = "loaded"
       ELSE training' = "failed" /\ UNCHANGED data
    /\ UNCHANGED <<app_vars, csv, X, feature_names>>

\* X, y = preprocess_data(data)
PreprocessData ==
    /\ training = "loaded"
    /\ X' = drop(drop(data, {"user_id", "date"}), {"risk_score"})
    /\ training' = "preprocessed"
    /\ UNCHANGED <<app_vars, csv, data, feature_names>>

\* model, scaler = train_and_evaluate_model(X, y): the scaler and, on its output, the
\* model are fit on the columns of X
TrainAndEvaluateModel ==
    /\ training = "preprocessed"
    /\ feature_names' = X.columns
    /\ training' = "trained"
    /\ UNCHANGED <<app_vars, csv, data, X>>

\* save_artifacts(model, scaler)
SaveArtifacts ==
    /\ training = "trained"
    /\ training' = "saved"
    /\ UNCHANGED <<app_vars, csv, data, X, feature_names>>

InitTrain ==
    /\ NotStarted
    /\ csv \in {[columns |-> header] : header \in CsvHeaders}
    /\ training = "start" /\ data = NoTable /\ X = NoTable /\ feature_names = <<>>

NextTrain ==
    \/ LoadAndValidateData \/ PreprocessData \/ TrainAndEvaluateModel \/ SaveArtifacts

SpecTrain == InitTrain /\ [][NextTrain]_vars

\* the columns of the array app.py hands to the scaler, in its order
FeatureColumns ==
    <<"weight", "height", "bmi", "blood_glucose", "physical_activity", "diet",
      "medication_adherence", "stress_level", "sleep_hours", "hydration_level">>

\* C17: whenever the training script has fitted the scaler and the model, the table
\* having been accepted by load_and_validate_data, the columns they are fitted on are
\* the 10 feature columns in the order of the feature array of app.py.
C17_FittedColumns ==
    training \in {"trained", "saved"} => feature_names = FeatureColumns

\* ---- submit_daily_data step by step, under the event loop
\* a variant in which the handler lets the event loop run (root.update(), as
\* fade_out_widgets does) after the validation
suspension_points_after_validation == {"validated"}

\* The positions of a running call of submit_daily_data at which it hands control to the
\* event loop (root.update(), a wait or a dialog) before it has finished reading the
\* form: the code has none, message boxes being shown in the except clauses only.
suspension_points == {}

\* root.mainloop() takes the next event when no callback runs or the running one waits
EventLoopFree == callback = "idle" \/ callback \in suspension_points

colors == <<"#1abc9c", "#2ecc71", "#3498db", "#9b59b6", "#f1c40f">>

Field(name) ==
    CASE name = "blood_glucose" -> blood_glucose
      [] name = "diet" -> diet
      [] name = "physical_activity" -> physical_activity
      [] name = "medication_adherence" -> medication_adherence
      [] name = "stress_level" -> stress_level
      [] name = "sleep_hours" -> sleep_hours
      [] name = "hydration_level" -> hydration_level

\* the .get() calls of a part of the handler
Read(at, names) == [at |-> at, values |-> [name \in names |-> Field(name)]]

ErrorDialog(e) ==
    [by    |-> "submit_daily_data",
     title |-> IF e.type = "ValueError" THEN "Input Error" ELSE "Error",
     e     |-> e]

\* lines 326-346: the BMI and the rules of the daily form
SubmitValidate ==
    /\ process = "running" /\ screen = "daily" /\ messagebox = NoDialog
    /\ callback = "idle"
    /\ Len(windows) < MaxWindows
    /\ reads' = <<Read("validation", ObservationKeys)>>
    /\ \E bmi_r \in {calculate_bmi} :
          IF bmi_r.kind = "raise"
          THEN messagebox' = ErrorDialog(bmi_r.e) /\ UNCHANGED <<bmi, callback>>
          ELSE IF bmi_r.kind = "None"
          THEN /\ messagebox' = ErrorDialog(Raise("ValueError",
                                                  "Invalid weight or height values", <<>>, 330))
               /\ UNCHANGED <<bmi, callback>>
          ELSE \E invalid \in {validate_daily_data} :
                  /\ bmi' = bmi_r.text
                  /\ IF invalid # NoException
                     THEN messagebox' = ErrorDialog(invalid) /\ UNCHANGED callback
                     ELSE callback' = "validated" /\ UNCHANGED messagebox
    /\ UNCHANGED <<process, xgb_model, scaler, screen, user_id, user_name, age, weight,
                   height, daily_vars, windows, debug_log, fhir_payload,
                   current_color_index, train_vars>>

\* lines 348-395: the feature array, its scaling and the prediction; a conversion of a
\* field that fails raises ValueError
SubmitPredict ==
    /\ callback = "validated"
    /\ reads' = Append(reads, Read("features", ObservationKeys))
    /\ \E invalid \in {validate_daily_data} :
          IF invalid # NoException
          THEN /\ messagebox' = ErrorDialog(invalid)
               /\ callback' = "idle"
               /\ UNCHANGED debug_log
          ELSE /\ \E fx \in {features} : \E fs \in {transform(scaler, fx)} :
                      debug_log' = [features |-> fx, features_scaled |-> fs,
                                    risk_score |-> predict(xgb_model, fs)]
               /\ callback' = "predicted"
               /\ UNCHANGED messagebox
    /\ UNCHANGED <<process, xgb_model, scaler, screen, user_id, user_name, age, weight,
                   height, daily_vars, bmi, windows, fhir_payload, current_color_index,
                   train_vars>>

\* lines 397-434: the BMI category, the statuses, the penalties and the adjusted score
SubmitAdjust ==
    /\ callback = "predicted"
    /\ reads' = Append(reads, Read("penalties",
                                    {"physical_activity", "blood_glucose", "sleep_hours",
                                     "medication_adherence", "stress_level",
                                     "hydration_level"}))
    /\ callback' = "adjusted"
    /\ UNCHANGED <<process, xgb_model, scaler, screen, user_id, user_name, age, weight,
                   height, daily_vars, bmi, windows, messagebox, debug_log, fhir_payload,
                   current_color_index, train_vars>>

\* lines 435-658: the window, its metric cards with their advice and its buttons
SubmitAdvise ==
    /\ callback = "adjusted"
    /\ reads' = Append(reads, Read("advice", {"diet", "medication_adherence",
                                              "stress_level", "hydration_level"}))
    /\ callback' = "idle"
    /\ \E invalid \in {validate_daily_data} :
          IF invalid # NoException
          THEN messagebox' = ErrorDialog(invalid) /\ UNCHANGED windows
          ELSE \E shown \in {show_feedback(debug_log.risk_score,
                                            bmi_category_of(calculate_bmi.val),
                                            physical_activity)} :
                  /\ windows' = Append(windows, shown.window)
                  /\ messagebox' = IF shown.e = NoException THEN NoDialog
                                   ELSE ErrorDialog(shown.e)
    /\ UNCHANGED <<process, xgb_model, scaler, screen, user_id, user_name, age, weight,
                   height, daily_vars, bmi, debug_log, fhir_payload, current_color_index,
                   train_vars>>

\* animate_colors, run by its timer every second
AnimateColors ==
    /\ process = "running"
    /\ EventLoopFree
    /\ current_color_index' = (current_color_index + 1) % Len(colors)
    /\ UNCHANGED <<process, xgb_model, scaler, screen, user_id, user_name, age, weight,
                   height, daily_vars, bmi, windows, messagebox, debug_log, fhir_payload,
                   step_vars, train_vars>>

\* a callback of the application, run by the event loop
Dispatch(handler) == EventLoopFree /\ handler

\* the daily form of a valid profile, three of its fields being edited
InitSteps ==
    /\ RunningQuiet
    /\ screen = "daily" /\ xgb_model \in Models
    /\ ValidProfile(<<"8", "0">>, <<"1", "7", "0">>)
    /\ blood_glucose \in EntryBloodGlucose /\ diet \in EntryDiet
    /\ sleep_hours \in EntrySleepHours
    /\ physical_activity = <<"2", "0">> /\ medication_adherence = <<"p", "o", "o", "r">>
    /\ stress_level = <<"H", "I", "G", "H">> /\ hydration_level = <<"n", "o">>

NextSteps ==
    \/ SubmitValidate \/ SubmitPredict \/ SubmitAdjust \/ SubmitAdvise
    \/ AnimateColors
    \/ Dispatch(TypeBloodGlucose) \/ Dispatch(TypeDiet) \/ Dispatch(TypeSleepHours)
    \/ Dispatch(ShareWithClinician) \/ Dispatch(CloseWindow) \/ Dispatch(DismissDialog)

SpecSteps == InitSteps /\ [][NextSteps]_vars

\* C19: the parts of one call of submit_daily_data read the same value of every field;
\* while the call runs each step is its next part, and no field is edited, no colour
\* animated, no payload shared and no window closed; the window and the debug block the
\* call ends with are those of the handler taken as one step from the form as it was.
C19_Uninterrupted ==
    /\ [](\A ri, rj \in 1..Len(reads) :
             \A name \in DOMAIN reads[ri].values \cap DOMAIN reads[rj].values :
                 reads[ri].values[name] = reads[rj].values[name])
    /\ [][callback # "idle" =>
             /\ callback' # callback
             /\ Len(reads') = Len(reads) + 1
             /\ UNCHANGED <<daily_vars, current_color_index, fhir_payload>>
             /\ windows' = windows \/ callback = "adjusted"]_vars
    /\ [][callback = "adjusted" /\ Len(windows') > Len(windows) =>
             /\ windows' = windows \o submit_daily_data.opened
             /\ debug_log = submit_daily_data.log[1]
             /\ bmi = submit_daily_data.bmi_set]_vars

\* a call has run its four parts and opened its window, the colours having been
\* animated and a field edited before it
C19_CallCompleted ==
    /\ callback = "idle"
    /\ Len(reads) = 4
    /\ reads[4].at = "advice"
    /\ Len(windows) = 1
    /\ current_color_index = 3

\* C21: in every feedback window the glucose penalty of 15 is applied exactly when the
\* glucose status is high or extreme, the activity penalty of 10 exactly when the
\* activity level is low, and the sleep penalty of 8 only when the sleep status is low;
\* the penalties sum to a value from 0 to 55 and the adjusted score is not below the
\* base score.
C21_PenaltiesAndStatuses ==
    \A wi \in 1..Len(windows) :
        /\ windows[wi].risk_modifiers.high_blood_glucose \in {0, 15}
        /\ windows[wi].risk_modifiers.high_blood_glucose = 15
              <=> windows[wi].bg_status \in {high, extreme}
        /\ windows[wi].risk_modifiers.low_activity \in {0, 10}
        /\ windows[wi].risk_modifiers.low_activity = 10
              <=> windows[wi].activity_level = low
        /\ windows[wi].risk_modifiers.poor_sleep \in {0, 8}
        /\ windows[wi].risk_modifiers.poor_sleep = 8 => windows[wi].sleep_status = low
        /\ SumValues(windows[wi].risk_modifiers) \in 0..55
        /\ windows[wi].adjusted_risk_score >= windows[wi].risk_score

\* a feedback window is open for 6.5 hours of sleep: its sleep status is low and it has
\* no sleep penalty, while the glucose and activity penalties go with their statuses
C21_LowSleepWithoutPenalty ==
    /\ Len(windows) > 0
    /\ sleep_hours = <<"6", ".", "5">>
    /\ windows[1].sleep_status = low
    /\ windows[1].risk_modifiers.poor_sleep = 0
    /\ windows[1].bg_status = extreme
    /\ windows[1].risk_modifiers.high_blood_glucose = 15
    /\ windows[1].activity_level = low
    /\ windows[1].risk_modifiers.low_activity = 10

====
